---- MODULE Spec2Model ----
(***************************************************************************)
(* Model of src/stringpool.rs: the decoder of the string-pool chunk of a   *)
(* binary XML resource (StringPoolHeader::read_from_file,                  *)
(* StringPool::read_from_file, StringPool::get, parse_utf8_string,         *)
(* parse_utf16_string).                                                    *)
(*                                                                         *)
(* Numbers.  TLC's integers are 32 bits wide and signed, so a u32 and a    *)
(* stream position (u64) are carried as a pair <<hi, lo>> of base-65536    *)
(* digits, value hi * 65536 + lo.  A u32 has hi in 0..65535; a position    *)
(* may have a larger hi.  A String is the sequence of its Unicode scalar   *)
(* values.                                                                 *)
(***************************************************************************)
EXTENDS Integers, Sequences, FiniteSets, TLC

VARIABLES
    input,              \* the bytes of the stream F (never written)
    pos,                \* the stream position of F
    chunk_header,       \* the ChunkHeader the caller parsed: [size |-> u32]
    overflow_checks,    \* build profile: TRUE panics on u32 overflow, FALSE wraps
    pc,                 \* position inside StringPool::read_from_file
    header,             \* string_pool_header, once read
    flag_is_utf8,
    chunk_data_start,
    offsets,
    string_data_start,
    strings,
    result,             \* "none" | "Ok" | "Err" | "panic_assert" | "panic_overflow"
                        \*        | "panic_unimplemented" | "panic_unwrap"
    trace,              \* per decoded string: the parser used and where it started
    get_call,           \* the last call of StringPool::get and what it returned
    chunk_start,        \* position of the first byte of the chunk (caller's knowledge)
    encoded             \* what the producer of the input laid out

vars == <<input, pos, chunk_header, overflow_checks, pc, header, flag_is_utf8,
          chunk_data_start, offsets, string_data_start, strings, result, trace,
          get_call, chunk_start, encoded>>

----------------------------------------------------------------------------
(* Bounds of the model *)

MaxStrings == 2
MaxPad == 1

----------------------------------------------------------------------------
(* Wide numbers *)

Half == 256 * 256

W(n) == <<n \div Half, n % Half>>

WAdd(a, b) ==
    LET lo == a[2] + b[2]
    IN  <<a[1] + b[1] + (lo \div Half), lo % Half>>

WLess(a, b) == a[1] < b[1] \/ (a[1] = b[1] /\ a[2] < b[2])

U32_MAX == <<Half - 1, Half - 1>>

\* u32 - u32 without overflow checks: the difference modulo 2^32.
wrapping_sub(a, b) ==
    LET lo == a[2] - b[2]
        borrow == IF lo < 0 THEN 1 ELSE 0
    IN  <<(a[1] - b[1] - borrow) % Half, lo % Half>>

\* The count of a u32 as a plain integer (the counts of the model are small).
ToInt(w) == w[1] * Half + w[2]

----------------------------------------------------------------------------
(* The stream primitives of the crate root (read_u8, read_u16, read_u32):  *)
(* fixed-width little-endian reads, each failing on a short read.  A read  *)
(* returns [ok, val, pos]: pos is the position after the bytes read.       *)

Available(p, n) == p[1] = 0 /\ p[2] + n <= Len(input)

ByteAt(p, k) == input[p[2] + k + 1]

read_u8(p) ==
    IF Available(p, 1)
    THEN [ok |-> TRUE, val |-> ByteAt(p, 0), pos |-> WAdd(p, W(1))]
    ELSE [ok |-> FALSE, val |-> 0, pos |-> p]

read_u16(p) ==
    IF Available(p, 2)
    THEN [ok |-> TRUE, val |-> ByteAt(p, 0) + 256 * ByteAt(p, 1), pos |-> WAdd(p, W(2))]
    ELSE [ok |-> FALSE, val |-> 0, pos |-> p]

read_u32(p) ==
    IF Available(p, 4)
    THEN [ok |-> TRUE,
          val |-> <<ByteAt(p, 2) + 256 * ByteAt(p, 3), ByteAt(p, 0) + 256 * ByteAt(p, 1)>>,
          pos |-> WAdd(p, W(4))]
    ELSE [ok |-> FALSE, val |-> W(0), pos |-> p]

\* How many of n reads of w bytes each succeed from p on.
ReadsBeforeEof(p, n, w) ==
    IF p[1] # 0 \/ p[2] > Len(input) THEN 0
    ELSE LET k == (Len(input) - p[2]) \div w
         IN  IF k < n THEN k ELSE n

\* `for _ in 0..n { s.push(read_u8(input)?) }`: the n values read, or the
\* failure of the first read that falls short.
read_u8_loop(p, n) ==
    LET k == ReadsBeforeEof(p, n, 1)
    IN  [ok |-> k = n,
         val |-> [i \in 1..k |-> read_u8(WAdd(p, W(i - 1))).val],
         pos |-> WAdd(p, W(k))]

\* `for _ in 0..n { s.push(read_u16(input)?) }`
read_u16_loop(p, n) ==
    LET k == ReadsBeforeEof(p, n, 2)
    IN  [ok |-> k = n,
         val |-> [i \in 1..k |-> read_u16(WAdd(p, W(2 * (i - 1)))).val],
         pos |-> WAdd(p, W(2 * k))]

\* `for _ in 0..n { offsets.push(read_u32(input)?) }`
read_u32_loop(p, n) ==
    LET k == ReadsBeforeEof(p, n, 4)
    IN  [ok |-> k = n,
         val |-> [i \in 1..k |-> read_u32(WAdd(p, W(4 * (i - 1)))).val],
         pos |-> WAdd(p, W(4 * k))]

----------------------------------------------------------------------------
(* String::from_utf8 and String::from_utf16: the text as the sequence of   *)
(* its scalar values, or a failure.                                        *)

IsCont(x) == x \in 128..191

\* The scalar value at the head of b and the bytes it takes (n = 0: invalid).
Utf8Head(b) ==
    LET b0 == b[1]
    IN  IF b0 < 128 THEN [n |-> 1, cp |-> b0]
        ELSE IF /\ b0 \in 194..223 /\ Len(b) >= 2 /\ IsCont(b[2])
             THEN [n |-> 2, cp |-> (b0 - 192) * 64 + (b[2] - 128)]
        ELSE IF /\ b0 \in 224..239 /\ Len(b) >= 3 /\ IsCont(b[2]) /\ IsCont(b[3])
                /\ (b0 = 224 => b[2] >= 160) /\ (b0 = 237 => b[2] <= 159)
             THEN [n |-> 3, cp |-> (b0 - 224) * 4096 + (b[2] - 128) * 64 + (b[3] - 128)]
        ELSE IF /\ b0 \in 240..244 /\ Len(b) >= 4
                /\ IsCont(b[2]) /\ IsCont(b[3]) /\ IsCont(b[4])
                /\ (b0 = 240 => b[2] >= 144) /\ (b0 = 244 => b[2] <= 143)
             THEN [n |-> 4, cp |-> (b0 - 240) * 262144 + (b[2] - 128) * 4096
                                    + (b[3] - 128) * 64 + (b[4] - 128)]
        ELSE [n |-> 0, cp |-> 0]

\* The head that starts at index i of b (a head takes at most four bytes).
Utf8HeadAt(b, i) == Utf8Head(SubSeq(b, i, IF i + 3 <= Len(b) THEN i + 3 ELSE Len(b)))

\* A continuation byte at i belongs to the head that starts at the nearest
\* index before it holding no continuation byte.
Utf8Covered(b, i) ==
    \E j \in 1..(i - 1) :
        /\ i - j <= 3
        /\ ~IsCont(b[j])
        /\ \A k \in (j + 1)..(i - 1) : IsCont(b[k])
        /\ Utf8HeadAt(b, j).n > i - j

\* The scalar values whose heads start in lo..hi, in order.
RECURSIVE Utf8Scalars(_, _, _)
Utf8Scalars(b, lo, hi) ==
    IF lo > hi THEN <<>>
    ELSE IF lo = hi THEN (IF IsCont(b[lo]) THEN <<>> ELSE <<Utf8HeadAt(b, lo).cp>>)
    ELSE LET mid == (lo + hi) \div 2
         IN  Utf8Scalars(b, lo, mid) \o Utf8Scalars(b, mid + 1, hi)

\* String::from_utf8: every byte starts a well-formed sequence or continues one.
from_utf8(b) ==
    LET wellformed == \A i \in 1..Len(b) :
                          IF IsCont(b[i]) THEN Utf8Covered(b, i)
                          ELSE Utf8HeadAt(b, i).n > 0
    IN  [ok |-> wellformed, val |-> IF wellformed THEN Utf8Scalars(b, 1, Len(b)) ELSE <<>>]

IsHighSurrogate(u) == u \in 55296..56319

IsLowSurrogate(u) == u \in 56320..57343

\* The scalar values that start in lo..hi, in order.
RECURSIVE Utf16Scalars(_, _, _)
Utf16Scalars(u, lo, hi) ==
    IF lo > hi THEN <<>>
    ELSE IF lo = hi
         THEN (IF IsLowSurrogate(u[lo]) THEN <<>>
               ELSE IF IsHighSurrogate(u[lo])
                    THEN <<65536 + (u[lo] - 55296) * 1024 + (u[lo + 1] - 56320)>>
               ELSE <<u[lo]>>)
    ELSE LET mid == (lo + hi) \div 2
         IN  Utf16Scalars(u, lo, mid) \o Utf16Scalars(u, mid + 1, hi)

\* String::from_utf16: every high surrogate is followed by a low one and every
\* low surrogate follows a high one.
from_utf16(u) ==
    LET paired == \A i \in 1..Len(u) :
                      /\ IsHighSurrogate(u[i]) => i < Len(u) /\ IsLowSurrogate(u[i + 1])
                      /\ IsLowSurrogate(u[i]) => i > 1 /\ IsHighSurrogate(u[i - 1])
    IN  [ok |-> paired, val |-> IF paired THEN Utf16Scalars(u, 1, Len(u)) ELSE <<>>]

----------------------------------------------------------------------------
(* The two string parsers.  Each returns [kind, str, pos]: kind is "Ok",   *)
(* "Err" (a ParseError of a read), "panic_unimplemented" or                 *)
(* "panic_unwrap"; pos is the stream position the call leaves.             *)

NeverHighBit(x) == FALSE

is_high_bit_set_16(x) == (x \div 32768) % 2 = 1

is_high_bit_set_8(x) == (x \div 128) % 2 = 1

Parsed(kind, str, p) == [kind |-> kind, str |-> str, pos |-> p]

parse_utf16_string(p) ==
    LET len == read_u16(p)
    IN  IF ~len.ok THEN Parsed("Err", <<>>, len.pos)
        ELSE IF is_high_bit_set_16(len.val)
             THEN Parsed("panic_unimplemented", <<>>, len.pos)
        ELSE LET s == read_u16_loop(len.pos, len.val)
             IN  IF ~s.ok THEN Parsed("Err", <<>>, s.pos)
                 ELSE LET z == read_u16(s.pos)
                          t == from_utf16(s.val)
                      IN  IF ~z.ok THEN Parsed("Err", <<>>, z.pos)
                          ELSE IF ~t.ok THEN Parsed("panic_unwrap", <<>>, z.pos)
                          ELSE Parsed("Ok", t.val, z.pos)

\* The length taken from the first prefix byte instead of the second.
parse_utf8_string_first_byte(p) ==
    LET len == read_u8(p)
        skip == IF len.ok THEN read_u8(len.pos) ELSE len
    IN  IF ~len.ok \/ ~skip.ok THEN Parsed("Err", <<>>, skip.pos)
        ELSE IF is_high_bit_set_8(len.val)
             THEN Parsed("panic_unimplemented", <<>>, skip.pos)
        ELSE LET s == read_u8_loop(skip.pos, len.val)
             IN  IF ~s.ok THEN Parsed("Err", <<>>, s.pos)
                 ELSE LET z == read_u8(s.pos)
                          t == from_utf8(s.val)
                      IN  IF ~z.ok THEN Parsed("Err", <<>>, z.pos)
                          ELSE IF ~t.ok THEN Parsed("panic_unwrap", <<>>, z.pos)
                          ELSE Parsed("Ok", t.val, z.pos)

parse_utf8_string(p) ==
    LET ignored == read_u8(p)
        len == IF ignored.ok THEN read_u8(ignored.pos) ELSE ignored
    IN  IF ~ignored.ok \/ ~len.ok THEN Parsed("Err", <<>>, len.pos)
        ELSE IF is_high_bit_set_8(len.val)
             THEN Parsed("panic_unimplemented", <<>>, len.pos)
        ELSE LET s == read_u8_loop(len.pos, len.val)
             IN  IF ~s.ok THEN Parsed("Err", <<>>, s.pos)
                 ELSE LET z == read_u8(s.pos)
                          t == from_utf8(s.val)
                      IN  IF ~z.ok THEN Parsed("Err", <<>>, z.pos)
                          ELSE IF ~t.ok THEN Parsed("panic_unwrap", <<>>, z.pos)
                          ELSE Parsed("Ok", t.val, z.pos)

----------------------------------------------------------------------------
(* The producer of the input: the chunk layout of the format (fixed-width  *)
(* little-endian integers; header, offset table, string data), with the    *)
(* deviations a malformed file can show.                                   *)

Utf8Bytes(cp) ==
    IF cp < 128 THEN <<cp>>
    ELSE IF cp < 2048 THEN <<192 + (cp \div 64), 128 + (cp % 64)>>
    ELSE IF cp < 65536
         THEN <<224 + (cp \div 4096), 128 + ((cp \div 64) % 64), 128 + (cp % 64)>>
    ELSE <<240 + (cp \div 262144), 128 + ((cp \div 4096) % 64),
           128 + ((cp \div 64) % 64), 128 + (cp % 64)>>

Utf16Units(cp) ==
    IF cp < 65536 THEN <<cp>>
    ELSE <<55296 + ((cp - 65536) \div 1024), 56320 + ((cp - 65536) % 1024)>>

RECURSIVE Flatten(_)
Flatten(ss) ==
    IF Len(ss) = 0 THEN <<>>
    ELSE IF Len(ss) = 1 THEN ss[1]
    ELSE LET mid == Len(ss) \div 2
         IN  Flatten(SubSeq(ss, 1, mid)) \o Flatten(SubSeq(ss, mid + 1, Len(ss)))

to_utf8(str) == Flatten([i \in 1..Len(str) |-> Utf8Bytes(str[i])])

to_utf16(str) == Flatten([i \in 1..Len(str) |-> Utf16Units(str[i])])

U16LE(u) == <<u % 256, u \div 256>>

U32LE(w) == U16LE(w[2]) \o U16LE(w[1])

\* One string of a UTF-8 pool: ignored byte (the character count), length byte
\* (the byte count), content, zero byte.  hb sets the high bit of the length.
Utf8Item(str, hb) ==
    LET b == to_utf8(str)
        l == Len(b) % 256
    IN  <<Len(str) % 256, IF hb /\ l < 128 THEN l + 128 ELSE l>> \o b \o <<0>>

\* One string of a UTF-16 pool: length unit, code units, zero unit.
Utf16Item(str, hb) ==
    LET u == to_utf16(str)
    IN  U16LE(IF hb THEN Len(u) + 32768 ELSE Len(u))
            \o Flatten([i \in 1..Len(u) |-> U16LE(u[i])]) \o <<0, 0>>

Repeat(x, n) == [i \in 1..n |-> x]

\* The texts the producer draws from: empty, and one to four UTF-8 bytes per
\* character.
SampleStrings == { <<>>, <<97>>, <<233>>, <<97, 8364>>, <<128512>> }

\* The longest text of the short UTF-8 length form, and the one above it.
Long127 == Repeat(97, 127)

Long128 == Repeat(97, 128)

StringLists ==
    UNION { [1..n -> SampleStrings] : n \in 0..MaxStrings }
    \cup { <<Long127>>, <<Long128>>, <<<<233>>, Long127>> }

Tamper(kind, k) == [kind |-> kind, k |-> k]

Tampers(n) ==
    { Tamper(t, 0) : t \in { "plain", "start_zero", "start_short", "start_fields",
                             "start_plus", "size_zero", "size_short", "size_header",
                             "style", "flag_bit0", "flag_bit7", "flag_bit9",
                             "flag_all_other", "trunc_tail", "trunc_header",
                             "trunc_offsets", "offs_reversed", "offs_same" } }
    \cup { Tamper("pad", k) : k \in 1..MaxPad }
    \cup { Tamper("highbit", k) : k \in 1..n }

\* The bytes of the generic chunk header on disk (type u16, header size u16,
\* size u32), which the caller consumes before the decoder runs.
ChunkHeaderBytes == 8

\* Bytes of the file that precede the chunk (the header of the enclosing document).
FilePrefix == <<3, 0, 8, 0, 0, 0, 0, 0>>

\* The bytes of the file and the ChunkHeader the caller parsed from it.
Layout(strs, utf8, t) ==
    LET n == Len(strs)
        fields_len == 5 * 4
        fixed_len == ChunkHeaderBytes + fields_len
        item == [i \in 1..n |->
                    IF utf8 THEN Utf8Item(strs[i], t.kind = "highbit" /\ t.k = i)
                    ELSE Utf16Item(strs[i], t.kind = "highbit" /\ t.k = i)]
        at == [i \in 1..n |-> Len(Flatten(SubSeq(item, 1, i - 1)))]
        table == CASE t.kind = "offs_reversed" -> [i \in 1..n |-> at[n + 1 - i]]
                   [] t.kind = "offs_same" -> [i \in 1..n |-> at[1]]
                   [] OTHER -> at
        data == Flatten(item)
        pad == IF t.kind = "pad" THEN Repeat(170, t.k) ELSE <<>>
        string_start ==
            CASE t.kind = "start_zero" -> 0
              [] t.kind = "start_short" -> fixed_len - 1
              [] t.kind = "start_fields" -> fields_len + 4 * n
              [] t.kind = "start_plus" -> fixed_len + 4 * n + 1
              [] OTHER -> fixed_len + 4 * n
        total == fixed_len + 4 * n + Len(data) + Len(pad)
        size == CASE t.kind = "size_zero" -> 0
                  [] t.kind = "size_short" -> fixed_len - 1
                  [] t.kind = "size_header" -> fixed_len
                  [] OTHER -> total
        bit8 == IF utf8 THEN 256 ELSE 0
        flags == CASE t.kind = "flag_bit0" -> W(bit8 + 1)
                   [] t.kind = "flag_bit7" -> W(bit8 + 128)
                   [] t.kind = "flag_bit9" -> W(bit8 + 512)
                   [] t.kind = "flag_all_other" -> <<Half - 1, Half - 1 - 256 + bit8>>
                   [] OTHER -> W(bit8)
        whole == FilePrefix
                 \o <<1, 0>> \o U16LE(fixed_len) \o U32LE(W(size))
                 \o U32LE(W(n)) \o U32LE(W(IF t.kind = "style" THEN 1 ELSE 0))
                 \o U32LE(flags) \o U32LE(W(string_start)) \o U32LE(W(0))
                 \o Flatten([i \in 1..n |-> U32LE(W(table[i]))])
                 \o data \o pad
        keep == CASE t.kind = "trunc_tail" -> Len(whole) - 1
                  [] t.kind = "trunc_header" -> Len(FilePrefix) + fixed_len - 2
                  [] t.kind = "trunc_offsets" -> Len(FilePrefix) + fixed_len + 4 * n - 2
                  [] OTHER -> Len(whole)
    IN  [bytes |-> SubSeq(whole, 1, keep), size |-> W(size)]

\* The scenario of the format's description: the strings "foo" and "bar" in a
\* UTF-8 pool, each written as 0x00, 0x03, three bytes, 0x00, with the
\* string_start and the second entry of the offset table given.
Foo == <<102, 111, 111>>

Bar == <<98, 97, 114>>

ScenarioLayout(string_start, second_offset) ==
    LET size == ChunkHeaderBytes + 5 * 4 + 8 + 12
    IN  [bytes |-> FilePrefix
                   \o <<1, 0>> \o U16LE(ChunkHeaderBytes + 5 * 4) \o U32LE(W(size))
                   \o U32LE(W(2)) \o U32LE(W(0)) \o U32LE(W(256))
                   \o U32LE(W(string_start)) \o U32LE(W(0))
                   \o U32LE(W(0)) \o U32LE(W(second_offset))
                   \o <<0, 3>> \o Foo \o <<0>> \o <<0, 3>> \o Bar \o <<0>>,
         size |-> W(size)]

\* The scenario as described (string_start 28, offsets [0, 4]) and with
\* string_start counted from the first byte of the chunk (36) and the second
\* offset at the first byte of the second string (6).
Scenarios ==
    { [string_start |-> a, second_offset |-> b] : a \in { 28, 36 }, b \in { 4, 6 } }

ScenarioTamper(sc) == Tamper("scenario", sc.string_start * 10 + sc.second_offset)

Produced ==
    { [strs |-> strs, utf8 |-> utf8, tamper |-> t] :
        strs \in StringLists, utf8 \in BOOLEAN, t \in Tampers(MaxStrings) }

Inputs ==
    { e \in Produced : e.tamper.kind = "highbit" => e.tamper.k <= Len(e.strs) }
    \cup { [strs |-> <<Foo, Bar>>, utf8 |-> TRUE, tamper |-> ScenarioTamper(sc)] :
             sc \in Scenarios }

LayoutOf(e) ==
    IF e.tamper.kind = "scenario"
    THEN ScenarioLayout(e.tamper.k \div 10, e.tamper.k % 10)
    ELSE Layout(e.strs, e.utf8, e.tamper)

----------------------------------------------------------------------------
(* The decoder *)

NoHeader ==
    [chunk_header |-> [size |-> W(0)], string_count |-> W(0), style_count |-> W(0),
     flags |-> W(0), string_start |-> W(0), style_start |-> W(0)]

NoCall == [called |-> FALSE, arg |-> W(0), ret |-> [kind |-> "None", val |-> <<>>]]

Init ==
    \E e \in Inputs, oc \in BOOLEAN :
        LET l == LayoutOf(e)
        IN  /\ input = l.bytes
            /\ chunk_header = [size |-> l.size]
            /\ chunk_start = W(Len(FilePrefix))
            /\ pos = W(Len(FilePrefix) + ChunkHeaderBytes)
            /\ overflow_checks = oc
            /\ encoded = e
            /\ pc = "header"
            /\ header = NoHeader
            /\ flag_is_utf8 = FALSE
            /\ chunk_data_start = W(0)
            /\ offsets = <<>>
            /\ string_data_start = W(0)
            /\ strings = <<>>
            /\ result = "none"
            /\ trace = <<>>
            /\ get_call = NoCall

\* std::mem::size_of::<ChunkHeader>(): the type (u16), header size (u16) and
\* size (u32) fields of the generic chunk descriptor.
size_of_ChunkHeader == 8

\* The five u32 fields alone.
SizeOfFieldsOnly == 5 * 4

\* std::mem::size_of::<StringPoolHeader>(): the chunk_header field and the five
\* u32 fields.
STRINGPOOL_HEADER_SIZE == size_of_ChunkHeader + 5 * 4

\* a - b on u32: with overflow checks a smaller a panics, without them the
\* difference wraps modulo 2^32.
sub_u32(a, b) ==
    IF WLess(a, b) /\ overflow_checks
    THEN [ok |-> FALSE, val |-> W(0)]
    ELSE [ok |-> TRUE, val |-> wrapping_sub(a, b)]

\* The distance taken from the start of the stream.
SeekFromStart(p, d) == d

\* input.seek(SeekFrom::Current(d))
SeekCurrent(p, d) == WAdd(p, d)

TestBit7(flags) == (flags[2] \div 128) % 2 = 1

\* (flags & (1 << 8)) != 0
FlagIsUtf8(flags) == (flags[2] \div 256) % 2 = 1

StringPoolHeader_read_from_file(p) ==
    LET f == read_u32_loop(p, 5)
    IN  IF ~f.ok THEN [ok |-> FALSE, val |-> NoHeader, pos |-> f.pos]
        ELSE [ok |-> TRUE,
              val |-> [chunk_header |-> chunk_header, string_count |-> f.val[1],
                       style_count |-> f.val[2], flags |-> f.val[3],
                       string_start |-> f.val[4], style_start |-> f.val[5]],
              pos |-> f.pos]

Abort(outcome, p) ==
    /\ result' = outcome
    /\ pc' = "done"
    /\ pos' = p

\* Lines 56-62: the header, the style_count assertion, the encoding flag and
\* chunk_data_start.
ReadHeader ==
    /\ pc = "header"
    /\ LET h == StringPoolHeader_read_from_file(pos)
       IN  IF ~h.ok
           THEN /\ Abort("Err", h.pos)
                /\ UNCHANGED <<header, flag_is_utf8, chunk_data_start>>
           ELSE IF h.val.style_count # W(0)
           THEN /\ Abort("panic_assert", h.pos)
                /\ UNCHANGED <<header, flag_is_utf8, chunk_data_start>>
           ELSE /\ header' = h.val
                /\ flag_is_utf8' = FlagIsUtf8(h.val.flags)
                /\ chunk_data_start' = h.pos
                /\ pos' = h.pos
                /\ pc' = "offsets"
                /\ UNCHANGED result
    /\ UNCHANGED <<input, chunk_header, overflow_checks, offsets, string_data_start,
                   strings, trace, get_call, chunk_start, encoded>>

OneFewer(h) == IF ToInt(h.string_count) = 0 THEN 0 ELSE ToInt(h.string_count) - 1

\* `0..string_pool_header.string_count`
OffsetCount(h) == ToInt(h.string_count)

\* Lines 64-69: the offset table.
ReadOffsets ==
    /\ pc = "offsets"
    /\ LET r == read_u32_loop(pos, OffsetCount(header))
       IN  IF ~r.ok
           THEN Abort("Err", r.pos) /\ UNCHANGED offsets
           ELSE /\ offsets' = r.val
                /\ pos' = r.pos
                /\ pc' = "seek"
                /\ UNCHANGED result
    /\ UNCHANGED <<input, chunk_header, overflow_checks, header, flag_is_utf8,
                   chunk_data_start, string_data_start, strings, trace, get_call,
                   chunk_start, encoded>>

\* Lines 71-78: the start of the string data.
SeekStringData ==
    /\ pc = "seek"
    /\ LET s == sub_u32(header.string_start, W(STRINGPOOL_HEADER_SIZE))
       IN  IF ~s.ok
           THEN Abort("panic_overflow", pos) /\ UNCHANGED string_data_start
           ELSE /\ pos' = SeekCurrent(chunk_data_start, s.val)
                /\ string_data_start' = SeekCurrent(chunk_data_start, s.val)
                /\ pc' = "strings"
                /\ UNCHANGED result
    /\ UNCHANGED <<input, chunk_header, overflow_checks, header, flag_is_utf8,
                   chunk_data_start, offsets, strings, trace, get_call, chunk_start,
                   encoded>>

StayAfterString(p) == p

\* Line 91: the position the loop body leaves, p being the one after the parse.
LoopRestore(p) == string_data_start

\* Lines 82-92: one iteration of the decode loop.
DecodeString ==
    /\ pc = "strings"
    /\ Len(strings) < Len(offsets)
    /\ LET offset == offsets[Len(strings) + 1]
           start == SeekCurrent(pos, offset)
           r == IF flag_is_utf8 THEN parse_utf8_string(start)
                ELSE parse_utf16_string(start)
       IN  /\ trace' = Append(trace,
                  [parser |-> IF flag_is_utf8 THEN "utf8" ELSE "utf16", start |-> start])
           /\ IF r.kind = "Ok"
              THEN /\ strings' = Append(strings, r.str)
                   /\ pos' = LoopRestore(r.pos)
                   /\ UNCHANGED <<pc, result>>
              ELSE Abort(r.kind, r.pos) /\ UNCHANGED strings
    /\ UNCHANGED <<input, chunk_header, overflow_checks, header, flag_is_utf8,
                   chunk_data_start, offsets, string_data_start, get_call, chunk_start,
                   encoded>>

\* Lines 94-102: the end of the chunk, and the pool.
SeekChunkEnd ==
    /\ pc = "strings"
    /\ Len(strings) = Len(offsets)
    /\ LET s == sub_u32(header.chunk_header.size, W(STRINGPOOL_HEADER_SIZE))
       IN  IF ~s.ok
           THEN Abort("panic_overflow", pos)
           ELSE Abort("Ok", SeekCurrent(chunk_data_start, s.val))
    /\ UNCHANGED <<input, chunk_header, overflow_checks, header, flag_is_utf8,
                   chunk_data_start, offsets, string_data_start, strings, trace,
                   get_call, chunk_start, encoded>>

GetNoSentinel(i) ==
    IF WLess(U32_MAX, i) THEN [kind |-> "panic", val |-> <<>>]
    ELSE IF WLess(i, W(Len(strings))) THEN [kind |-> "Some", val |-> strings[i[2] + 1]]
    ELSE [kind |-> "panic", val |-> <<>>]

\* Lines 105-111.
StringPool_get(i) ==
    IF WLess(U32_MAX, i) THEN [kind |-> "panic", val |-> <<>>]
    ELSE IF i = U32_MAX THEN [kind |-> "None", val |-> <<>>]
    ELSE IF WLess(i, W(Len(strings))) THEN [kind |-> "Some", val |-> strings[i[2] + 1]]
    ELSE [kind |-> "panic", val |-> <<>>]

GetIndices == { W(k) : k \in 0..MaxStrings } \cup { U32_MAX, <<Half, 0>> }

Get ==
    /\ pc = "done"
    /\ result = "Ok"
    /\ \E i \in GetIndices :
           get_call' = [called |-> TRUE, arg |-> i, ret |-> StringPool_get(i)]
    /\ UNCHANGED <<input, pos, chunk_header, overflow_checks, pc, header, flag_is_utf8,
                   chunk_data_start, offsets, string_data_start, strings, result,
                   trace, chunk_start, encoded>>

Next ==
    \/ ReadHeader
    \/ ReadOffsets
    \/ SeekStringData
    \/ DecodeString
    \/ SeekChunkEnd
    \/ Get

Spec == Init /\ [][Next]_vars

----------------------------------------------------------------------------
(* Properties *)

Reverse(q) == [i \in 1..Len(q) |-> q[Len(q) + 1 - i]]

\* The input is the producer's layout of encoded.strs with nothing malformed.
WellFormed == encoded.tamper.kind \in { "plain", "pad" }

\* The position of the first byte after the five header fields.
AfterFields == WAdd(chunk_start, W(28))

\* C1: whenever the decode returns a pool, the final stream position is
\* chunk_start + chunk_header.size.
C1_FinalPosition ==
    result = "Ok" => pos = WAdd(chunk_start, chunk_header.size)

\* C1, for the chunks the subtraction of line 95 does not wrap on: the final
\* position is chunk_start + chunk_header.size.
FinalPositionWithoutWrap ==
    result = "Ok" /\ ~WLess(chunk_header.size, W(28))
        => pos = WAdd(chunk_start, chunk_header.size)

\* C2 as stated: the scenario input with string_start = 28 and offsets [0, 4]
\* decodes to ["foo", "bar"].
C2_ScenarioAsStated ==
    /\ encoded.tamper = ScenarioTamper([string_start |-> 28, second_offset |-> 4])
    /\ pc = "done"
    => result = "Ok" /\ strings = <<Foo, Bar>>

\* C2 amended: the scenario input with string_start = 36 (the 8 bytes of the
\* chunk header, the 20 bytes of the five fields, the 8 bytes of the two
\* offsets) and offsets [0, 6] (each string takes 6 bytes) decodes to
\* ["foo", "bar"].
C2_ScenarioFromChunkStart ==
    /\ encoded.tamper = ScenarioTamper([string_start |-> 36, second_offset |-> 6])
    /\ pc = "done"
    => result = "Ok" /\ strings = <<Foo, Bar>>

C2_Witness ==
    /\ encoded.tamper = ScenarioTamper([string_start |-> 36, second_offset |-> 6])
    /\ result = "Ok"
    /\ Len(strings) = 2

\* What the scenario decodes to when only one of the two values is changed,
\* and as described.
ScenarioOtherwise ==
    pc = "done" /\ encoded.tamper.kind = "scenario" =>
        /\ result = "Ok"
        /\ encoded.tamper.k = 284 => strings = << <<>>, <<>> >>
        /\ encoded.tamper.k = 286 => strings = << <<>>, <<>> >>
        /\ encoded.tamper.k = 364 => strings = << Foo, <<>> >>

\* C3: a UTF-8 pool laid out from strings of 0 to 127 UTF-8 bytes decodes to
\* exactly those strings, in order.
C3_RoundTrip ==
    /\ WellFormed
    /\ encoded.utf8
    /\ \A i \in 1..Len(encoded.strs) : Len(to_utf8(encoded.strs[i])) <= 127
    /\ pc = "done"
    => result = "Ok" /\ strings = encoded.strs

C3_Witness ==
    /\ WellFormed /\ encoded.utf8 /\ result = "Ok"
    /\ encoded.strs = << <<233>>, Long127 >>
    /\ strings = encoded.strs

\* C4: every string of a pool is decoded by the UTF-8 parser when bit 8 of the
\* header flags is set and by the UTF-16 parser when it is clear, whatever the
\* other flag bits and the strings are.
C4_EncodingFromBit8 ==
    LET bit8 == header.flags[2] % 512 >= 256
    IN  /\ \A i \in 1..Len(trace) : trace[i].parser = IF bit8 THEN "utf8" ELSE "utf16"
        /\ \A i \in 1..Len(strings) :
               strings[i] = IF bit8 THEN parse_utf8_string(trace[i].start).str
                            ELSE parse_utf16_string(trace[i].start).str
        /\ encoded.tamper.kind \in { "flag_bit0", "flag_bit7", "flag_bit9", "flag_all_other" }
           /\ result = "Ok" => strings = encoded.strs

C4_Witness ==
    /\ encoded.tamper.kind = "flag_all_other" /\ ~encoded.utf8
    /\ result = "Ok" /\ Len(trace) = 2
    /\ strings = << <<128512>>, <<97, 8364>> >>

\* The length prefix of the string at p has its high bit set (bit 7 of the
\* second byte of a UTF-8 string, bit 15 of the first unit of a UTF-16 one).
HighBitPrefixAt(p) ==
    /\ p[1] = 0
    /\ p[2] + 2 <= Len(input)
    /\ input[p[2] + 2] >= 128

\* C5: when the decode loop reaches a string whose length prefix has its high
\* bit set, the decode ends in the unimplemented panic with the stream right
\* after the prefix and no string added; and no pool is ever returned for an
\* offset table that holds such a string.
C5_HighBitAborts ==
    /\ [](result = "Ok" =>
            \A i \in 1..Len(offsets) :
                ~HighBitPrefixAt(WAdd(string_data_start, offsets[i])))
    /\ [][ /\ pc = "strings"
           /\ Len(strings) < Len(offsets)
           /\ HighBitPrefixAt(WAdd(string_data_start, offsets[Len(strings) + 1]))
           => /\ result' = "panic_unimplemented"
              /\ strings' = strings
              /\ pos' = WAdd(WAdd(string_data_start, offsets[Len(strings) + 1]), W(2)) ]_vars

C5_Witness ==
    /\ result = "panic_unimplemented"
    /\ encoded.tamper = Tamper("highbit", 2)
    /\ Len(strings) = 1

\* C6: a returned pool holds exactly string_count strings, one per entry of
\* the offset table; the pool is never longer than the table while it is built.
C6_OnePerOffset ==
    /\ Len(strings) <= Len(offsets)
    /\ result = "Ok" =>
           /\ W(Len(strings)) = header.string_count
           /\ Len(offsets) = Len(strings)
           /\ Len(trace) = Len(strings)

C6_Witness == result = "Ok" /\ Len(strings) = MaxStrings

\* C7: get(0xFFFFFFFF) is None for every pool; get(i) for 0 <= i <
\* string_count is strings[i]; a call of get changes neither the strings nor
\* the header.
C7_Get ==
    /\ [](get_call.called =>
            /\ get_call.arg = <<65535, 65535>> => get_call.ret.kind = "None"
            /\ WLess(get_call.arg, header.string_count) =>
                   get_call.ret = [kind |-> "Some", val |-> strings[get_call.arg[2] + 1]])
    /\ [][get_call' # get_call => strings' = strings /\ header' = header]_vars

C7_Witness ==
    /\ get_call.called /\ get_call.arg = <<65535, 65535>>
    /\ get_call.ret.kind = "None" /\ strings = <<>>

\* C8 as stated: string_data_start = data_start + (string_start - 20).
C8_FieldsOnly ==
    pc = "strings" =>
        string_data_start = WAdd(AfterFields, wrapping_sub(header.string_start, W(20)))

\* C8 amended: string_data_start = data_start + ((string_start - 28) mod 2^32):
\* the value subtracted is the size of the five fields and of the chunk header
\* together, so that string_start counts from the first byte of the chunk.
C8_WholeHeader ==
    pc = "strings" =>
        /\ chunk_data_start = AfterFields
        /\ string_data_start = WAdd(AfterFields, wrapping_sub(header.string_start, W(28)))
        /\ ~WLess(header.string_start, W(28))
               => string_data_start = WAdd(chunk_start, header.string_start)

C8_Witness ==
    /\ pc = "strings" /\ WellFormed /\ Len(offsets) = 2
    /\ string_data_start = WAdd(chunk_start, W(36))

\* C9: every iteration of the decode loop starts with the stream at
\* string_data_start and reads string i from string_data_start + offsets[i];
\* equal offsets give equal strings and a reversed table the reversed strings.
C9_AbsoluteOffsets ==
    /\ pc = "strings" => pos = string_data_start
    /\ \A i \in 1..Len(trace) : trace[i].start = WAdd(string_data_start, offsets[i])
    /\ \A i, j \in 1..Len(strings) : offsets[i] = offsets[j] => strings[i] = strings[j]
    /\ encoded.tamper.kind = "offs_reversed" /\ result = "Ok"
           => strings = Reverse(encoded.strs)

C9_Witness ==
    /\ encoded.tamper.kind = "offs_reversed" /\ result = "Ok"
    /\ encoded.strs = << <<97, 8364>>, <<233>> >>
    /\ strings = << <<233>>, <<97, 8364>> >>

\* C10: the decode never goes on with a wrapped seek distance: past the seek of
\* line 75 string_start >= HEADER_SIZE, and a returned pool has
\* chunk_header.size >= HEADER_SIZE.
C10_NoWrap ==
    /\ pc = "strings" \/ result = "Ok" => ~WLess(header.string_start, W(28))
    /\ result = "Ok" => ~WLess(header.chunk_header.size, W(28))

====
